---- MODULE Spec2Model ----
(***************************************************************************)
(* A model of cvxpy/reductions/solvers/conic_solvers/scs_conif.py: the     *)
(* SCS interface of cvxpy.  Three specifications share the module:         *)
(*   SpecPSD    - the PSD vectorisation helpers (scaled_lower_tri,         *)
(*                psd_format_mat, tri_to_full, extract_dual_value);        *)
(*   SpecInvert - SCS.apply followed by SCS.invert;                        *)
(*   SpecSolve  - repeated SCS.solve_via_data calls on a solver cache.     *)
(* Arrays are functions on 0..len-1, as in numpy; matrices are functions   *)
(* on pairs <<i, j>>.                                                      *)
(***************************************************************************)
EXTENDS Integers, Sequences, FiniteSets

VARIABLES
    psd_pc,        \* "input" | "forward" | "inverse" | "dual_input" | "dual"
    psd_n,         \* side of the PSD block handled last
    psd_M,         \* the symmetric matrix given to the forward map
    psd_lower,     \* the scaled lower-triangular vector
    psd_full,      \* the result of tri_to_full on psd_lower
    ed_in,         \* arguments of the last extract_dual_value call
    ed_out,        \* its result: [value, new_offset]
    inv_pc,        \* "input" | "applied" | "inverted"
    problem,       \* the problem given to SCS.apply
    data,          \* the solver arguments apply returned
    inverse_data,  \* the inverse data apply returned
    raw,           \* the solver's raw result given to SCS.invert
    solution,      \* the Solution invert returned
    solver_cache,  \* the dict shared by the solve_via_data calls
    call,          \* the arguments of the last solve_via_data call
    request,       \* what that call handed to scs.solve: [args, cones, verbose]
    solver_opts,   \* the caller's option dict after that call
    results,       \* what scs.solve returned to that call
    last_cached,   \* history: the raw result of the latest call given the cache
    ncalls         \* history: the number of solve_via_data calls made

psd_vars == <<psd_pc, psd_n, psd_M, psd_lower, psd_full, ed_in, ed_out>>
inv_vars == <<inv_pc, problem, data, inverse_data, raw, solution>>
solve_vars == <<solver_cache, call, request, solver_opts, results, last_cached,
               ncalls>>
vars == <<psd_vars, inv_vars, solve_vars>>

None == "None"

-----------------------------------------------------------------------------
(* Exact arithmetic on the numbers m * (1/sqrt 2)^e, m an integer, e >= 0. *)
(* A number is the pair <<m, e>> in normal form: m = 0 gives <<0, 0>>,     *)
(* and e >= 2 only with m odd.  Equal reals have equal normal forms.       *)

RECURSIVE Norm(_)
Norm(q) ==
    IF q[1] = 0 THEN <<0, 0>>
    ELSE IF q[2] >= 2 /\ q[1] % 2 = 0 THEN Norm(<<q[1] \div 2, q[2] - 2>>)
    ELSE q

Num(m) == <<m, 0>>
Mul(p, q) == Norm(<<p[1] * q[1], p[2] + q[2]>>)

\* 1/np.sqrt(2) and 0.5
InvSqrt2 == <<1, 1>>
Half == <<1, 2>>
Zero == <<0, 0>>

\* x / np.sqrt(2)
DivSqrt2(q) == Mul(q, InvSqrt2)

-----------------------------------------------------------------------------
(* numpy helpers *)

ALen(a) == Cardinality(DOMAIN a)

\* np.arange(0, k)
arange(k) == [t \in 0..(k - 1) |-> t]

RECURSIVE SortSet(_)
SortSet(S) ==
    IF S = {} THEN <<>>
    ELSE LET m == CHOOSE x \in S : \A y \in S : x <= y
         IN  <<m>> \o SortSet(S \ {m})

\* np.sort of an array of integers (duplicates kept)
RECURSIVE InsertSorted(_, _)
InsertSorted(s, x) ==
    IF s = <<>> THEN <<x>>
    ELSE IF x <= Head(s) THEN <<x>> \o s
    ELSE <<Head(s)>> \o InsertSorted(Tail(s), x)

RECURSIVE SortUpTo(_, _)
SortUpTo(a, k) ==
    IF k = 0 THEN <<>> ELSE InsertSorted(SortUpTo(a, k - 1), a[k - 1])

np_sort(a) == LET s == SortUpTo(a, ALen(a)) IN [t \in DOMAIN a |-> s[t + 1]]

\* the positions of a boolean mask over an n x n matrix, in row-major order
RowMajor(n, S) ==
    LET keys == SortSet({p[1] * n + p[2] : p \in S})
    IN  [t \in 0..(Cardinality(S) - 1) |-> <<keys[t + 1] \div n, keys[t + 1] % n>>]

\* np.tril_indices(n, k): positions with j <= i + k, row by row
tril_indices(n, k) ==
    RowMajor(n, {p \in (0..(n - 1)) \X (0..(n - 1)) : p[2] <= p[1] + k})

\* np.triu_indices(n, k): positions with j >= i + k, row by row
triu_indices(n, k) ==
    RowMajor(n, {p \in (0..(n - 1)) \X (0..(n - 1)) : p[2] >= p[1] + k})

\* np.ravel_multi_index(idx, (rows, cols), order='F')
ravel_multi_index_F(idx, rows, cols) ==
    [t \in DOMAIN idx |-> idx[t][1] + idx[t][2] * rows]

\* np.zeros((rows, cols))
zeros(rows, cols) == [p \in (0..(rows - 1)) \X (0..(cols - 1)) |-> Zero]

\* mat[idx] = v  with a scalar v
AssignScalar(mat, idx, v) ==
    [p \in DOMAIN mat |-> IF \E t \in DOMAIN idx : idx[t] = p THEN v ELSE mat[p]]

\* mat[idx] = vals  with an array of the same length as idx
AssignArray(mat, idx, vals) ==
    [p \in DOMAIN mat |->
        IF \E t \in DOMAIN idx : idx[t] = p
        THEN vals[CHOOSE t \in DOMAIN idx : idx[t] = p]
        ELSE mat[p]]

\* mat[idx] /= np.sqrt(2)
DivideAt(mat, idx) ==
    [p \in DOMAIN mat |->
        IF \E t \in DOMAIN idx : idx[t] = p THEN DivSqrt2(mat[p]) ELSE mat[p]]

\* np.fill_diagonal(mat, v)
fill_diagonal(mat, v) ==
    [p \in DOMAIN mat |-> IF p[1] = p[2] THEN v ELSE mat[p]]

\* np.ravel(mat, order='F') and np.reshape(mat, n*n, order="F")
ravel_F(mat, rows, cols) ==
    [t \in 0..(rows * cols - 1) |-> mat[<<t % rows, t \div rows>>]]

\* a[np.nonzero(a)]: the nonzero entries of a, in order
nonzero_vals(a) ==
    LET keep == SortSet({t \in DOMAIN a : a[t] # Zero})
    IN  [t \in 0..(Len(keep) - 1) |-> a[keep[t + 1]]]

\* sp.csc_matrix((val, (row, col)), shape) as coordinate triplets
csc_matrix(val, row, col, shape) ==
    [shape |-> shape, val |-> val, row |-> row, col |-> col]

\* mat * x for a matrix with at most one stored entry in each row
\* (row_arr is arange(entries), so row k holds exactly the k-th triplet)
MatVec(mat, x) ==
    [r \in 0..(mat.shape[1] - 1) |->
        LET ts == {t \in DOMAIN mat.row : mat.row[t] = r}
        IN  IF ts = {} THEN Zero
            ELSE LET t == CHOOSE u \in ts : TRUE
                 IN  Mul(mat.val[t], x[mat.col[t]])]

\* a[lo:hi]
Slice(a, lo, hi) == [t \in 0..(hi - lo - 1) |-> a[lo + t]]

-----------------------------------------------------------------------------
(* The PSD helpers *)

scaled_lower_tri(size) ==
    LET rows == size
        cols == size
        entries == (rows * (cols + 1)) \div 2
        row_arr == arange(entries)
        lower_diag_indices == tril_indices(rows, 0)
        col_arr == np_sort(ravel_multi_index_F(lower_diag_indices, rows, cols))
        val0 == zeros(rows, cols)
        val1 == AssignScalar(val0, lower_diag_indices, InvSqrt2)
        val2 == fill_diagonal(val1, Half)
        val3 == ravel_F(val2, rows, cols)
        val_arr == nonzero_vals(val3)
    IN  csc_matrix(val_arr, row_arr, col_arr, <<entries, rows * cols>>)

\* constr is a record [kind, shape]; constr.expr.shape[0] is shape[1] here
psd_format_mat(constr) ==
    LET rows == constr.shape[1]
        cols == constr.shape[1]
        entries == (rows * (cols + 1)) \div 2
        row_arr == arange(entries)
        lower_diag_indices == tril_indices(rows, 0)
        col_arr == np_sort(ravel_multi_index_F(lower_diag_indices, rows, cols))
        val0 == zeros(rows, cols)
        val1 == AssignScalar(val0, lower_diag_indices, InvSqrt2)
        val2 == fill_diagonal(val1, Half)
        val3 == ravel_F(val2, rows, cols)
        val_arr == nonzero_vals(val3)
    IN  csc_matrix(val_arr, row_arr, col_arr, <<entries, rows * cols>>)

tri_to_full(lower_tri, n) ==
    LET full0 == zeros(n, n)
        full1 == AssignArray(full0, triu_indices(n, 0), lower_tri)
        full2 == AssignArray(full1, tril_indices(n, 0), lower_tri)
        full3 == DivideAt(full2, tril_indices(n, -1))
        full4 == DivideAt(full3, triu_indices(n, 1))
    IN  ravel_F(full4, n, n)

\* cvxpy.reductions.solvers.utilities.extract_dual_value: the slice of
\* constraint.size entries starting at offset, and the advanced offset
utilities_extract_dual_value(result_vec, offset, constraint) ==
    [value |-> Slice(result_vec, offset, offset + constraint.size),
     new_offset |-> offset + constraint.size]

extract_dual_value(result_vec, offset, constraint) ==
    IF constraint.kind = "PSD"
    THEN LET dim == constraint.shape[1]
             lower_tri_dim == (dim * (dim + 1)) \div 2
             new_offset == offset + lower_tri_dim
             lower_tri == Slice(result_vec, offset, new_offset)
             full == tri_to_full(lower_tri, dim)
         IN  [value |-> full, new_offset |-> new_offset]
    ELSE utilities_extract_dual_value(result_vec, offset, constraint)

-----------------------------------------------------------------------------
(* cvxpy.settings and ConicSolver names used by the interface *)

OPTIMAL == "optimal"
OPTIMAL_INACCURATE == "optimal_inaccurate"
UNBOUNDED == "unbounded"
UNBOUNDED_INACCURATE == "unbounded_inaccurate"
INFEASIBLE == "infeasible"
INFEASIBLE_INACCURATE == "infeasible_inaccurate"
SOLVER_ERROR == "solver_error"
SOLUTION_PRESENT == {OPTIMAL, OPTIMAL_INACCURATE}
DUAL_VAR_ID == "y"
SCS_NAME == "SCS"

\* the empty dict
EmptyMap == [k \in {} |-> None]

ScsStatuses ==
    {"Solved", "Solved/Inaccurate", "Unbounded", "Unbounded/Inaccurate",
     "Infeasible", "Infeasible/Inaccurate", "Failure", "Indeterminate",
     "Interrupted"}

\* STATUS_MAP with "Failure" taken for an inaccurate optimum
STATUS_MAP_FailureUsable ==
    [st \in ScsStatuses |->
        CASE st = "Solved" -> OPTIMAL
          [] st = "Solved/Inaccurate" -> OPTIMAL_INACCURATE
          [] st = "Unbounded" -> UNBOUNDED
          [] st = "Unbounded/Inaccurate" -> UNBOUNDED_INACCURATE
          [] st = "Infeasible" -> INFEASIBLE
          [] st = "Infeasible/Inaccurate" -> INFEASIBLE_INACCURATE
          [] st = "Failure" -> OPTIMAL_INACCURATE
          [] st = "Indeterminate" -> SOLVER_ERROR
          [] st = "Interrupted" -> SOLVER_ERROR]

STATUS_MAP ==
    [st \in ScsStatuses |->
        CASE st = "Solved" -> OPTIMAL
          [] st = "Solved/Inaccurate" -> OPTIMAL_INACCURATE
          [] st = "Unbounded" -> UNBOUNDED
          [] st = "Unbounded/Inaccurate" -> UNBOUNDED_INACCURATE
          [] st = "Infeasible" -> INFEASIBLE
          [] st = "Infeasible/Inaccurate" -> INFEASIBLE_INACCURATE
          [] st = "Failure" -> SOLVER_ERROR
          [] st = "Indeterminate" -> SOLVER_ERROR
          [] st = "Interrupted" -> SOLVER_ERROR]

\* ConeDims(group_constraints(constraints)): the rows of the zero cone and of
\* the nonnegative orthant, the sizes of the second-order cones, the number
\* of exponential cones and the sides of the PSD cones
RECURSIVE SumSizes(_, _)
SumSizes(constraints, kind) ==
    IF constraints = <<>> THEN 0
    ELSE (IF Head(constraints).kind = kind THEN Head(constraints).size ELSE 0)
         + SumSizes(Tail(constraints), kind)

ConeDims(constraints) ==
    LET of(kind) == SelectSeq(constraints, LAMBDA con : con.kind = kind)
    IN  [zero |-> SumSizes(constraints, "Zero"),
         nonpos |-> SumSizes(constraints, "NonPos"),
         soc |-> [t \in DOMAIN of("SOC") |-> of("SOC")[t].size],
         exp |-> Len(of("ExpCone")),
         psd |-> [t \in DOMAIN of("PSD") |-> of("PSD")[t].shape[1]]]

dims_to_solver_dict(cone_dims) ==
    [f |-> cone_dims.zero,
     l |-> cone_dims.nonpos,
     q |-> cone_dims.soc,
     ep |-> cone_dims.exp,
     s |-> cone_dims.psd]

\* intf.DEFAULT_INTF.const_to_matrix on a float ndarray: an ndarray holding
\* the same entries
const_to_matrix(value) == [t \in DOMAIN value |-> value[t]]

\* Solution(status, opt_val, primal_vars, dual_vars, attr)
Solution(status, opt_val, primal_vars, dual_vars, attr) ==
    [status |-> status, opt_val |-> opt_val, primal_vars |-> primal_vars,
     dual_vars |-> dual_vars, attr |-> attr]

\* cvxpy.reductions.solution.failure_solution: a record carrying only the
\* status, with a sentinel for the optimal value
failure_solution(status) ==
    LET opt_val == IF status = INFEASIBLE THEN "inf"
                   ELSE IF status = UNBOUNDED THEN "-inf"
                   ELSE None
    IN  Solution(status, opt_val, EmptyMap, EmptyMap, EmptyMap)

-----------------------------------------------------------------------------
(* SCS.apply and SCS.invert *)

\* prob.A[:, :-1] negated
NegAllButLastColumn(A) ==
    [shape |-> <<A.shape[1], A.shape[2] - 1>>,
     at |-> [p \in (0..(A.shape[1] - 1)) \X (0..(A.shape[2] - 2)) |-> 0 - A.at[p]]]

\* the last column negated along with the others
LastColumn_Negated(A) ==
    [i \in 0..(A.shape[1] - 1) |-> 0 - A.at[<<i, A.shape[2] - 1>>]]

\* prob.A[:, -1].A.flatten()
LastColumn(A) == [i \in 0..(A.shape[1] - 1) |-> A.at[<<i, A.shape[2] - 1>>]]

\* prob is the result of formatted.apply_parameters(): the homogenized cost
\* vector c and the homogenized affine map A of the problem
apply(prob) ==
    LET dims == ConeDims(prob.constraints)
        c == prob.c
        A == prob.A
    IN  [data |-> [DIMS |-> dims,
                   PARAM_PROB |-> [c |-> c, A |-> A],
                   C |-> Slice(c, 0, ALen(c) - 1),
                   A |-> NegAllButLastColumn(A),
                   B |-> LastColumn(A)],
         inv_data |-> [VAR_ID |-> prob.x.id,
                       DIMS |-> dims,
                       OFFSET |-> c[ALen(c) - 1]]]

\* invert without the offset added back
invert_NoOffset(sol, inv_data) ==
    LET status == STATUS_MAP[sol.info.status]
        attr == [solve_time |-> sol.info.solveTime,
                 setup_time |-> sol.info.setupTime,
                 num_iters |-> sol.info.iter]
    IN  IF status \in SOLUTION_PRESENT
        THEN LET primal_val == sol.info.pobj
                 opt_val == primal_val
                 primal_vars == [k \in {inv_data.VAR_ID} |-> const_to_matrix(sol.x)]
                 dual_vars == [k \in {DUAL_VAR_ID} |-> const_to_matrix(sol.y)]
             IN  Solution(status, opt_val, primal_vars, dual_vars, attr)
        ELSE failure_solution(status)

invert(sol, inv_data) ==
    LET status == STATUS_MAP[sol.info.status]
        attr == [solve_time |-> sol.info.solveTime,
                 setup_time |-> sol.info.setupTime,
                 num_iters |-> sol.info.iter]
    IN  IF status \in SOLUTION_PRESENT
        THEN LET primal_val == sol.info.pobj
                 opt_val == primal_val + inv_data.OFFSET
                 primal_vars == [k \in {inv_data.VAR_ID} |-> const_to_matrix(sol.x)]
                 dual_vars == [k \in {DUAL_VAR_ID} |-> const_to_matrix(sol.y)]
             IN  Solution(status, opt_val, primal_vars, dual_vars, attr)
        ELSE failure_solution(status)

-----------------------------------------------------------------------------
(* SpecPSD: the helpers applied to bounded inputs *)

\* sides of the PSD blocks tried
PsdSides == {1, 2, 3, 5}
\* entries of the symmetric matrices tried
Entries == {0, 1}
\* entries and length of the solver's dual vectors tried
DualEntries == {1, 2}
DualLen == 7

Pairs(n) == (0..(n - 1)) \X (0..(n - 1))
LowerPairs(n) == {p \in Pairs(n) : p[2] <= p[1]}

\* every symmetric n x n matrix over Entries
SymMatrices(n) ==
    {[p \in Pairs(n) |-> IF p[2] <= p[1] THEN L[p] ELSE L[<<p[2], p[1]>>]] :
        L \in [LowerPairs(n) -> Entries]}

\* the column-major flattening of an integer matrix
Flatten(M, n) == ravel_F([p \in DOMAIN M |-> Num(M[p])], n, n)

PsdConstraint(n) == [kind |-> "PSD", shape |-> <<n, n>>, size |-> n * n]
NonPosConstraint(k) == [kind |-> "NonPos", shape |-> <<k>>, size |-> k]

DualConstraints ==
    {PsdConstraint(1), PsdConstraint(2), PsdConstraint(3),
     NonPosConstraint(1), NonPosConstraint(2)}

ConstraintRows(constraint) ==
    IF constraint.kind = "PSD"
    THEN (constraint.shape[1] * (constraint.shape[1] + 1)) \div 2
    ELSE constraint.size

DualInputs ==
    {[result_vec |-> [t \in DOMAIN rv |-> Num(rv[t])], offset |-> offset,
      constraint |-> constraint] :
        rv \in [0..(DualLen - 1) -> DualEntries], offset \in 0..1,
        constraint \in {c \in DualConstraints : 1 + ConstraintRows(c) <= DualLen}}

\* the forward vectorisation with the matrix of scaled_lower_tri
ForwardScaledLowerTri ==
    /\ psd_pc = "input"
    /\ psd_lower' = MatVec(scaled_lower_tri(psd_n), Flatten(psd_M, psd_n))
    /\ psd_pc' = "forward"
    /\ UNCHANGED <<psd_n, psd_M, psd_full, ed_in, ed_out, inv_vars, solve_vars>>

\* the forward vectorisation with the matrix of SCS.psd_format_mat
ForwardPsdFormatMat ==
    /\ psd_pc = "input"
    /\ psd_lower' = MatVec(psd_format_mat(PsdConstraint(psd_n)), Flatten(psd_M, psd_n))
    /\ psd_pc' = "forward"
    /\ UNCHANGED <<psd_n, psd_M, psd_full, ed_in, ed_out, inv_vars, solve_vars>>

\* tri_to_full applied to the vector the forward map produced
Inverse ==
    /\ psd_pc = "forward"
    /\ psd_full' = tri_to_full(psd_lower, psd_n)
    /\ psd_pc' = "inverse"
    /\ UNCHANGED <<psd_n, psd_M, psd_lower, ed_in, ed_out, inv_vars, solve_vars>>

\* SCS.extract_dual_value on a dual vector of the solver
ExtractDualValue ==
    /\ psd_pc = "dual_input"
    /\ ed_out' = extract_dual_value(ed_in.result_vec, ed_in.offset, ed_in.constraint)
    /\ psd_pc' = "dual"
    /\ UNCHANGED <<psd_n, psd_M, psd_lower, psd_full, ed_in, inv_vars, solve_vars>>

InvIdle ==
    /\ inv_pc = "idle"
    /\ problem = None
    /\ data = None
    /\ inverse_data = None
    /\ raw = None
    /\ solution = None

SolveIdle ==
    /\ solver_cache = None
    /\ call = None
    /\ request = None
    /\ solver_opts = None
    /\ results = None
    /\ last_cached = None
    /\ ncalls = 0

PsdIdle ==
    /\ psd_pc = "idle"
    /\ psd_n = 0
    /\ psd_M = None
    /\ psd_lower = None
    /\ psd_full = None
    /\ ed_in = None
    /\ ed_out = None

\* the inputs: a symmetric matrix, or a dual vector with a constraint
InitPSD ==
    /\ InvIdle
    /\ SolveIdle
    /\ psd_lower = None
    /\ psd_full = None
    /\ ed_out = None
    /\ \/ /\ psd_pc = "input"
          /\ psd_n \in PsdSides
          /\ psd_M \in SymMatrices(psd_n)
          /\ ed_in = None
       \/ /\ psd_pc = "dual_input"
          /\ psd_n = 0
          /\ psd_M = None
          /\ ed_in \in DualInputs

NextPSD ==
    \/ ForwardScaledLowerTri
    \/ ForwardPsdFormatMat
    \/ Inverse
    \/ ExtractDualValue

SpecPSD == InitPSD /\ [][NextPSD]_vars

-----------------------------------------------------------------------------
(* SpecInvert: SCS.apply on a problem, then SCS.invert on a raw result *)

\* the array holding the entries of a tuple
Arr(seq) == [t \in 0..(Len(seq) - 1) |-> seq[t + 1]]

ZeroConstraint(k) == [kind |-> "Zero", shape |-> <<k>>, size |-> k]

\* constraint lists in the solver's cone order
ConstraintLists ==
    {<<NonPosConstraint(1)>>,
     <<ZeroConstraint(1), PsdConstraint(2)>>,
     <<ZeroConstraint(1), NonPosConstraint(1), PsdConstraint(1)>>}

RECURSIVE TotalRows(_)
TotalRows(constraints) ==
    IF constraints = <<>> THEN 0
    ELSE ConstraintRows(Head(constraints)) + TotalRows(Tail(constraints))

\* rows of the homogenized affine map: two coefficients and the constant
RowChoices == {Arr(<<1, -2, 3>>), Arr(<<0, 4, -5>>)}
\* homogenized cost vectors: two coefficients and the constant term
CostChoices == {Arr(<<1, 2, 0>>), Arr(<<1, 2, 5>>), Arr(<<-1, 0, -3>>)}
VarIds == {7}

MatrixOfRows(rows) ==
    [shape |-> <<ALen(rows), 3>>,
     at |-> [p \in (0..(ALen(rows) - 1)) \X (0..2) |-> rows[p[1]][p[2]]]]

Problems ==
    UNION {{[x |-> [id |-> id], constraints |-> L, c |-> c,
             A |-> MatrixOfRows(rows)] :
                id \in VarIds, c \in CostChoices,
                rows \in [0..(TotalRows(L) - 1) -> RowChoices]} :
           L \in ConstraintLists}

PobjChoices == {-2, 0, 7}
Diagnostics ==
    {[solveTime |-> 1, setupTime |-> 2, iter |-> 3],
     [solveTime |-> 4, setupTime |-> 5, iter |-> 60]}

\* the raw results scs.solve can return on a problem with the given rows
RawResults(rows) ==
    {[x |-> Arr(<<Num(1), Num(2)>>),
      y |-> y,
      s |-> [t \in 0..(rows - 1) |-> Zero],
      info |-> [status |-> st, pobj |-> pobj, solveTime |-> d.solveTime,
                setupTime |-> d.setupTime, iter |-> d.iter]] :
        y \in {[t \in 0..(rows - 1) |-> Num(t + 1)],
               [t \in 0..(rows - 1) |-> Num(2 * t + 3)]},
        st \in ScsStatuses, pobj \in PobjChoices, d \in Diagnostics}

Apply ==
    /\ inv_pc = "input"
    /\ data' = apply(problem).data
    /\ inverse_data' = apply(problem).inv_data
    /\ inv_pc' = "applied"
    /\ UNCHANGED <<problem, raw, solution, psd_vars, solve_vars>>

Invert ==
    /\ inv_pc = "applied"
    /\ solution' = invert(raw, inverse_data)
    /\ inv_pc' = "inverted"
    /\ UNCHANGED <<problem, data, inverse_data, raw, psd_vars, solve_vars>>

InitInvert ==
    /\ PsdIdle
    /\ SolveIdle
    /\ inv_pc = "input"
    /\ problem \in Problems
    /\ raw \in RawResults(problem.A.shape[1])
    /\ data = None
    /\ inverse_data = None
    /\ solution = None

NextInvert ==
    \/ Apply
    \/ Invert

SpecInvert == InitInvert /\ [][NextInvert]_vars

-----------------------------------------------------------------------------
(* SpecSolve: a sequence of SCS.solve_via_data calls *)

\* number of distinct answers the solver may give, and of calls made
NumAnswers == 2
MaxCalls == 3
SolveStatuses == {"Solved", "Infeasible", "Failure"}
DefaultEps == "1e-4"

\* the k-th answer of the solver: x, y and s differ from each other and
\* from those of every other answer
Answer(k, st) ==
    [x |-> Arr(<<Num(10 * k + 1), Num(10 * k + 4)>>),
     y |-> Arr(<<Num(10 * k + 2)>>),
     s |-> Arr(<<Num(10 * k + 3)>>),
     info |-> [status |-> st, pobj |-> k, solveTime |-> 1, setupTime |-> 2,
               iter |-> 3]]

SolveAnswers == {Answer(k, st) : k \in 1..NumAnswers, st \in SolveStatuses}

\* the formatted data of the calls: apply on the problem  minimize x s.t. x >= 1
SolveData ==
    apply([x |-> [id |-> 7], constraints |-> <<NonPosConstraint(1)>>,
           c |-> Arr(<<1, 2, 0>>),
           A |-> MatrixOfRows(Arr(<<Arr(<<1, -2, 3>>)>>))]).data

OptChoices == {EmptyMap, [k \in {"eps"} |-> "1e-3"]}

\* d[k] = v
DictSet(d, k, v) == [kk \in DOMAIN d \cup {k} |-> IF kk = k THEN v ELSE d[kk]]

\* d.get(k, default)
DictGet(d, k, default) == IF k \in DOMAIN d THEN d[k] ELSE default

\* the request built without looking at the warm_start flag
BuildArgs_IgnoreFlag(d, warm_start, cache) ==
    LET args == [k \in {"A", "b", "c"} |->
                    IF k = "A" THEN d.A ELSE IF k = "b" THEN d.B ELSE d.C]
    IN  IF cache # {} /\ (\E sc \in cache : SCS_NAME \in DOMAIN sc)
        THEN LET sc == CHOOSE sc \in cache : TRUE
             IN  DictSet(DictSet(DictSet(args, "x", sc[SCS_NAME].x),
                                 "y", sc[SCS_NAME].y),
                         "s", sc[SCS_NAME].s)
        ELSE args

\* the request solve_via_data builds; cache is {} for solver_cache=None and
\* {d} for the dict d
BuildArgs(d, warm_start, cache) ==
    LET args == [k \in {"A", "b", "c"} |->
                    IF k = "A" THEN d.A ELSE IF k = "b" THEN d.B ELSE d.C]
    IN  IF warm_start /\ cache # {} /\ (\E sc \in cache : SCS_NAME \in DOMAIN sc)
        THEN LET sc == CHOOSE sc \in cache : TRUE
             IN  DictSet(DictSet(DictSet(args, "x", sc[SCS_NAME].x),
                                 "y", sc[SCS_NAME].y),
                         "s", sc[SCS_NAME].s)
        ELSE args

\* the cache after a call that keeps an entry it already holds
StoreResults_KeepOld(cache_given, sc, res) ==
    IF cache_given /\ SCS_NAME \notin DOMAIN sc
    THEN DictSet(sc, SCS_NAME, res) ELSE sc

\* the cache after the call
StoreResults(cache_given, sc, res) ==
    IF cache_given THEN DictSet(sc, SCS_NAME, res) ELSE sc

solve_via_data(d, warm_start, verbose, opts, cache_given) ==
    /\ request' = [args |-> BuildArgs(d, warm_start,
                                      IF cache_given THEN {solver_cache} ELSE {}),
                   cones |-> dims_to_solver_dict(d.DIMS),
                   verbose |-> verbose]
    /\ solver_opts' = DictSet(opts, "eps", DictGet(opts, "eps", DefaultEps))
    /\ results' \in SolveAnswers
    /\ solver_cache' = StoreResults(cache_given, solver_cache, results')
    /\ call' = [warm_start |-> warm_start, verbose |-> verbose,
                cache_given |-> cache_given]
    /\ last_cached' = IF cache_given THEN {results'} ELSE last_cached

SolveViaData ==
    /\ ncalls < MaxCalls
    /\ ncalls' = ncalls + 1
    /\ \E warm_start \in BOOLEAN, verbose \in BOOLEAN, cache_given \in BOOLEAN,
          opts \in OptChoices :
            solve_via_data(SolveData, warm_start, verbose, opts, cache_given)
    /\ UNCHANGED <<psd_vars, inv_vars>>

\* a fresh cache, or one that already holds another solver's entry
InitSolve ==
    /\ PsdIdle
    /\ InvIdle
    /\ solver_cache \in {EmptyMap, [k \in {"ECOS"} |-> [x |-> Arr(<<Num(5)>>)]]}
    /\ call = None
    /\ request = None
    /\ solver_opts = None
    /\ results = None
    /\ last_cached = {}
    /\ ncalls = 0

NextSolve == SolveViaData

SpecSolve == InitSolve /\ [][NextSolve]_vars

-----------------------------------------------------------------------------
(* Properties *)

WarmKeys == {"x", "y", "s"}
HasWarm(a) == WarmKeys \subseteq DOMAIN a
NoWarm(a) == DOMAIN a \cap WarmKeys = {}
UsableStatuses == {"Solved", "Solved/Inaccurate"}
ErrorStatuses == {"Failure", "Indeterminate", "Interrupted"}
CallerStatuses ==
    {OPTIMAL, OPTIMAL_INACCURATE, UNBOUNDED, UNBOUNDED_INACCURATE, INFEASIBLE,
     INFEASIBLE_INACCURATE, SOLVER_ERROR}

\* C1: a solve_via_data call hands warm-start vectors x, y, s to the solver
\* exactly when warm_start is set, a cache was passed and the cache held an
\* entry of this solver before the call; the vectors are then those of that
\* entry, which is the raw result of the latest earlier call given the cache;
\* otherwise the request has none of x, y, s.
C1_WarmStartIffCached ==
    [][LET a == request'.args
       IN  /\ HasWarm(a) <=> (/\ call'.warm_start
                              /\ call'.cache_given
                              /\ SCS_NAME \in DOMAIN solver_cache)
           /\ ~HasWarm(a) => NoWarm(a)
           /\ HasWarm(a) =>
                /\ a["x"] = solver_cache[SCS_NAME].x
                /\ a["y"] = solver_cache[SCS_NAME].y
                /\ a["s"] = solver_cache[SCS_NAME].s
                /\ last_cached = {solver_cache[SCS_NAME]}]_vars

\* a third call that is warm-started from the second call's result, the
\* first call having stored a different one
C1_Witness ==
    /\ ncalls = 3
    /\ call.warm_start
    /\ HasWarm(request.args)
    /\ request.args["x"] # results.x
    /\ request.args["x"] # Answer(1, "Solved").x

\* C2: a call given a cache leaves under this solver's name the raw result
\* it returns, whatever the warm_start flag and the status, and leaves the
\* other entries as they were; a call given no cache stores nothing.
C2_CacheHoldsLastResult ==
    [][/\ call'.cache_given =>
            /\ DOMAIN solver_cache' = DOMAIN solver_cache \cup {SCS_NAME}
            /\ solver_cache'[SCS_NAME] = results'
            /\ \A k \in DOMAIN solver_cache \ {SCS_NAME} :
                    solver_cache'[k] = solver_cache[k]
       /\ ~call'.cache_given => solver_cache' = solver_cache]_vars

\* a cold call that overwrote an earlier entry with a failed result, next to
\* another solver's entry
C2_Witness ==
    /\ ncalls >= 2
    /\ call.cache_given
    /\ ~call.warm_start
    /\ results.info.status = "Failure"
    /\ last_cached = {results}
    /\ solver_cache[SCS_NAME] = results
    /\ "ECOS" \in DOMAIN solver_cache

\* C3: invert maps each of the nine status strings to one caller-level
\* status, the three error strings to the solver-error status; the Solution
\* has primal and dual maps exactly for Solved and Solved/Inaccurate, and is
\* otherwise a failure record carrying only the status.
C3_StatusMapping ==
    inv_pc = "inverted" =>
        LET st == raw.info.status
        IN  /\ solution.status \in CallerStatuses
            /\ solution.status = STATUS_MAP[st]
            /\ st \in ErrorStatuses => solution.status = SOLVER_ERROR
            /\ st \in UsableStatuses <=>
                    (/\ DOMAIN solution.primal_vars # {}
                     /\ DOMAIN solution.dual_vars # {})
            /\ st \notin UsableStatuses =>
                    /\ DOMAIN solution.primal_vars = {}
                    /\ DOMAIN solution.dual_vars = {}
                    /\ DOMAIN solution.attr = {}

\* an interrupted solve inverted to a bare solver-error record
C3_Witness ==
    /\ inv_pc = "inverted"
    /\ raw.info.status = "Interrupted"
    /\ solution.status = SOLVER_ERROR
    /\ DOMAIN solution.primal_vars = {}

\* C4: whatever the status, the Solution invert returns carries the solve
\* time, the setup time and the iteration count of the raw result.
C4_DiagnosticsAlways ==
    inv_pc = "inverted" =>
        /\ {"solve_time", "setup_time", "num_iters"} \subseteq DOMAIN solution.attr
        /\ solution.attr["solve_time"] = raw.info.solveTime
        /\ solution.attr["setup_time"] = raw.info.setupTime
        /\ solution.attr["num_iters"] = raw.info.iter

\* the dual values got by walking the dual vector once per constraint, in
\* order, with extract_dual_value
RECURSIVE WalkDuals(_, _, _)
WalkDuals(result_vec, offset, constraints) ==
    IF constraints = <<>> THEN <<>>
    ELSE LET r == extract_dual_value(result_vec, offset, Head(constraints))
         IN  <<r.value>> \o WalkDuals(result_vec, r.new_offset, Tail(constraints))

\* C5: with a usable status, the dual values of the Solution are the slices
\* of the dual vector, one per constraint in formatting order, a PSD slice
\* passed through tri_to_full and every other slice unchanged.
C5_DualsWalked ==
    (inv_pc = "inverted" /\ raw.info.status \in UsableStatuses) =>
        LET walked == WalkDuals(raw.y, 0, problem.constraints)
        IN  \A t \in DOMAIN walked :
                \E k \in DOMAIN solution.dual_vars :
                    solution.dual_vars[k] = walked[t]

OffsetShifts == {-4, 1, 6}
AddConstant(prob, k) ==
    [prob EXCEPT !.c = [t \in DOMAIN prob.c |->
                            IF t = ALen(prob.c) - 1 THEN prob.c[t] + k
                            ELSE prob.c[t]]]

\* C6: apply keeps the last entry of the cost vector as the offset and hands
\* the other entries to the solver as c; with a usable status the optimal
\* value of invert is pobj plus that offset, so adding k to the constant
\* term of the objective moves the optimal value by k.
C6_ObjectiveOffset ==
    /\ inv_pc \in {"applied", "inverted"} =>
            /\ inverse_data.OFFSET = problem.c[ALen(problem.c) - 1]
            /\ ALen(data.C) = ALen(problem.c) - 1
            /\ \A t \in DOMAIN data.C : data.C[t] = problem.c[t]
    /\ (inv_pc = "inverted" /\ raw.info.status \in UsableStatuses) =>
            /\ solution.opt_val = raw.info.pobj + problem.c[ALen(problem.c) - 1]
            /\ \A k \in OffsetShifts :
                    invert(raw, apply(AddConstant(problem, k)).inv_data).opt_val
                        = solution.opt_val + k

\* a usable result inverted on a problem with a nonzero constant term
C6_Witness ==
    /\ inv_pc = "inverted"
    /\ raw.info.status = "Solved/Inaccurate"
    /\ problem.c[2] = 5
    /\ raw.info.pobj = 7
    /\ solution.opt_val = 12

ColMajorLowerIndex(n, i, j) == j * n - ((j * (j - 1)) \div 2) + (i - j)

\* C7: for n = 1, 2 and 5, tri_to_full of the forward vectorisation of a
\* symmetric matrix is the column-major flattening of that matrix.
C7_RoundTrip ==
    (psd_pc = "inverse" /\ psd_n \in {1, 2, 5}) =>
        psd_full = Flatten(psd_M, psd_n)

\* C8: the forward vectorisation has n(n+1)/2 entries, the lower triangle in
\* column-major order, a diagonal entry with coefficient 1 and a strictly
\* lower entry with coefficient 1/sqrt(2).
C8_ForwardScaling ==
    psd_pc \in {"forward", "inverse"} =>
        /\ ALen(psd_lower) = (psd_n * (psd_n + 1)) \div 2
        /\ \A p \in LowerPairs(psd_n) :
                psd_lower[ColMajorLowerIndex(psd_n, p[1], p[2])] =
                    IF p[1] = p[2] THEN Num(psd_M[p]) ELSE DivSqrt2(Num(psd_M[p]))

\* C9: tri_to_full(v, n) is the column-major flattening of the symmetric
\* matrix whose entries (i, j) and (j, i), i >= j, are the entry of v for
\* (i, j) in the column-major lower triangle, divided by sqrt(2) off the
\* diagonal.
C9_TriToFullSymmetric ==
    (psd_pc = "dual" /\ ed_in.constraint.kind = "PSD") =>
        LET n == ed_in.constraint.shape[1]
            v == Slice(ed_in.result_vec, ed_in.offset,
                       ed_in.offset + (n * (n + 1)) \div 2)
            F == ed_out.value
        IN  /\ ALen(F) = n * n
            /\ \A p \in LowerPairs(n) :
                    LET e == v[ColMajorLowerIndex(n, p[1], p[2])]
                        want == IF p[1] = p[2] THEN e ELSE DivSqrt2(e)
                    IN  /\ F[p[1] + p[2] * n] = want
                        /\ F[p[2] + p[1] * n] = want

\* C10: apply emits as b the last column of the homogenized map, as it is,
\* and as A the negation of the other columns, row for row.
C10_SplitAndNegate ==
    inv_pc \in {"applied", "inverted"} =>
        LET M == problem.A
            rows == M.shape[1]
            cols == M.shape[2]
        IN  /\ ALen(data.B) = rows
            /\ \A i \in 0..(rows - 1) : data.B[i] = M.at[<<i, cols - 1>>]
            /\ data.A.shape = <<rows, cols - 1>>
            /\ DOMAIN data.A.at = (0..(rows - 1)) \X (0..(cols - 2))
            /\ \A i \in 0..(rows - 1) : \A j \in 0..(cols - 2) :
                    data.A.at[<<i, j>>] = 0 - M.at[<<i, j>>]

\* apply on a map of four rows whose rows differ
C10_Witness ==
    /\ inv_pc = "applied"
    /\ problem.A.shape[1] = 4
    /\ data.B[0] = 3
    /\ data.B[1] = -5
    /\ data.A.at[<<0, 1>>] = 2
    /\ data.A.at[<<1, 1>>] = -4

====
